---- MODULE Spec2Model ----
(***************************************************************************)
(* Model of libmachine/host/host.go: the per-machine lifecycle             *)
(* orchestrator (Start, Stop, Kill, Restart, Upgrade, ConfigureAuth,       *)
(* CreateSSHClient) over a pluggable driver, a provisioner and the         *)
(* confirmation poller, and the host name validation.                      *)
(*                                                                         *)
(* A call of a Host method is a little state machine: pc[p] is the line    *)
(* the call is at, events[p] the calls it has made on the driver, the      *)
(* provisioner and the poller so far, result[p] the error it returned.     *)
(***************************************************************************)
EXTENDS Integers, Sequences, FiniteSets, TLC

\* ---------------------------------------------------------------- bounds
\* Attempts of one poller wait (the poller's fixed budget).
MaxAttempts == 3

\* Longest host name given to ValidateHostName.
MaxNameLen == 3

\* Callers that may hold a call on the same Host.
Procs == {1, 2}

\* ---------------------------------------------------------------- values
\* state.State, as enumerated by the specification of LifecycleState.
States == {"None", "Running", "Paused", "Saved", "Stopped", "Starting", "Error", "Timeout"}

\* What a call of Driver.GetState() yields: a state, or an error.
QueryErr == "QueryErr"
Observations == States \cup {QueryErr}

Nil == "nil"

\* errMachineMustBeRunningForUpgrade
errMachineMustBeRunningForUpgrade == "Error: machine must be running to upgrade."

\* The poller's error when its budget is used up.
WaitTimeout == "WaitTimeout"

\* The public operations modelled.
Ops == {"Start", "Stop", "Kill", "Restart", "Upgrade", "ConfigureAuth", "CreateSSHClient"}

VARIABLES
    machineState,   \* the state of the real machine behind the driver
    active,         \* the callers that issue calls in this specification
    op,             \* op[p]: the Host method caller p is in ("none" when idle)
    inner,          \* inner[p]: the method whose runActionForState is running
    pc,             \* pc[p]: position of the call
    attempt,        \* attempt[p]: iterations done by the current poller wait
    lastObs,        \* lastObs[p]: the result of the call's latest state query
    arg,            \* arg[p]: the name given to ValidateHostName (<<>> otherwise)
    queryFailed,    \* queryFailed[p]: a state query of the current wait failed
    events,         \* events[p]: the calls made by the call so far, in order
    result          \* result[p]: the error returned ("none" until it returns)

vars == <<machineState, active, op, inner, pc, attempt, lastObs, arg, queryFailed,
          events, result>>

\* An entry of events[p].
Ev(e, t, ok) == [e |-> e, t |-> t, ok |-> ok]

\* ------------------------------------------------------- pure helpers
\* Faulty variant of DesiredState: Kill is given the desired state of Start.
DesiredState_KillRunning(method) ==
    IF method \in {"Start", "Kill"} THEN "Running" ELSE "Stopped"

\* desiredState passed by Start / Stop / Kill to runActionForState.
DesiredState(method) == IF method = "Start" THEN "Running" ELSE "Stopped"

\* drivers.MachineInState(d, desired)() applied to the result of the query:
\* a failed query is "not in the state".
MachineInState(obs, desired) == obs # QueryErr /\ obs = desired

\* fmt.Errorf("Machine %q is already %s.", h.Name, strings.ToLower(desired.String()))
AlreadyInState(desired) == IF desired = "Running" THEN "already running"
                           ELSE "already stopped"

\* Faulty variant of Guard: the guard never rejects.
Guard_NeverRejects(obs, desired) == Nil

\* Faulty variant of Guard: a machine in Error counts as in the desired state.
Guard_RejectsError(obs, desired) ==
    IF obs \in {desired, "Error"} THEN AlreadyInState(desired) ELSE Nil

\* runActionForState, lines 80-82: the error of the guard, Nil to go on.
Guard(obs, desired) == IF MachineInState(obs, desired) THEN AlreadyInState(desired)
                       ELSE Nil

\* Faulty variant of WaitFor: a failed state query ends the wait.
WaitFor_AbortsOnQueryErr(obs, desired, i) ==
    IF obs = QueryErr THEN WaitTimeout
    ELSE IF MachineInState(obs, desired) THEN Nil
    ELSE IF i + 1 >= MaxAttempts THEN WaitTimeout
    ELSE "retry"

\* One iteration of mcnutils.WaitFor(f), i iterations having failed before it:
\* Nil on convergence, WaitTimeout when the budget is used up, "retry" else.
WaitFor(obs, desired, i) == IF MachineInState(obs, desired) THEN Nil
                            ELSE IF i + 1 >= MaxAttempts THEN WaitTimeout
                            ELSE "retry"

\* What a call of Driver.GetState() may return.
GetState == {machineState, QueryErr}

\* The error a failing Driver.Start / Stop / Kill returns.
DriverErr(method) == method \o " failed"

\* Driver.Start / Stop / Kill: the error returned and the machine's state
\* right after the call (the effect may also come later, see BackendDrift).
DriverCall(method) ==
    {[err |-> DriverErr(method), st |-> machineState]} \cup
    {[err |-> Nil, st |-> s] :
        s \in {machineState} \cup (IF method = "Start" THEN {"Starting", "Running"}
                                   ELSE {"Stopped"})}

\* ------------------------------------------------------- continuations
\* Where the caller of runActionForState goes on with the error it returned.
\* Start / Stop / Kill (lines 91-101) return it.
Done(err) == [pc |-> "done", result |-> err]
Goto(l) == [pc |-> l, result |-> "none"]

\* Faulty variant of RestartAfterStop: the error of h.Stop() is dropped.
RestartAfterStop_IgnoresErr(err) == Goto("restart_waitStopped")

\* Variant of RestartAfterStop: the "already stopped" error is tolerated.
RestartAfterStop_ToleratesAlready(err) ==
    IF err # Nil /\ err # AlreadyInState("Stopped") THEN Done(err)
    ELSE Goto("restart_waitStopped")

\* Restart, lines 105-107: `if err := h.Stop(); err != nil { return err }`.
RestartAfterStop(err) == IF err # Nil THEN Done(err) ELSE Goto("restart_waitStopped")

\* Faulty variant of RestartAfterStart: Restart returns what h.Start() returned,
\* without its final wait.
RestartAfterStart_NoBarrier(err) == Done(err)

\* Variant of RestartAfterStart: the "already running" error is tolerated.
RestartAfterStart_ToleratesAlready(err) ==
    IF err # Nil /\ err # AlreadyInState("Running") THEN Done(err)
    ELSE Goto("restart_waitRunning")

\* Restart, lines 114-116: `if err := h.Start(); err != nil { return err }`.
RestartAfterStart(err) == IF err # Nil THEN Done(err) ELSE Goto("restart_waitRunning")

\* The return of runActionForState(...) to the method that called it.
Return(o, in, err) ==
    IF o = "Restart"
    THEN (IF in = "Stop" THEN RestartAfterStop(err) ELSE RestartAfterStart(err))
    ELSE Done(err)

\* Faulty variant of AfterAction: a failed action is tried again.
AfterAction_RetriesOnError(o, in, err) ==
    IF err # Nil THEN Goto("ra_guard") ELSE Goto("ra_wait")

\* Faulty variant of AfterAction: the error of the action is not checked.
AfterAction_AlwaysWaits(o, in, err) == Goto("ra_wait")

\* runActionForState, lines 84-88: after the action, return its error or wait.
AfterAction(o, in, err) == IF err # Nil THEN Return(o, in, err) ELSE Goto("ra_wait")

\* ---------------------------------------------------------------- steps
\* One step of caller p: the new position, sub-call, query result, the events
\* appended and the machine's new state.
WaitPcs == {"ra_wait", "restart_waitStopped", "restart_waitRunning"}
Step(p, to, in, obs, evs, st) ==
    /\ pc' = [pc EXCEPT ![p] = to.pc]
    /\ result' = [result EXCEPT ![p] = to.result]
    /\ inner' = [inner EXCEPT ![p] = in]
    /\ lastObs' = [lastObs EXCEPT ![p] = obs]
    /\ events' = [events EXCEPT ![p] = events[p] \o evs]
    /\ attempt' = [attempt EXCEPT ![p] = IF to.pc = pc[p] THEN attempt[p] + 1 ELSE 0]
    /\ queryFailed' = [queryFailed EXCEPT ![p] =
           pc[p] \in WaitPcs /\ (obs = QueryErr \/ (attempt[p] > 0 /\ queryFailed[p]))]
    /\ machineState' = st
    /\ UNCHANGED <<active, op, arg>>

\* A caller invokes a method of the Host.
Invoke(p, o) ==
    /\ pc[p] = "idle"
    /\ op' = [op EXCEPT ![p] = o]
    /\ inner' = [inner EXCEPT ![p] = IF o \in {"Start", "Stop", "Kill"} THEN o ELSE "none"]
    /\ pc' = [pc EXCEPT ![p] = CASE o \in {"Start", "Stop", "Kill"} -> "ra_guard"
                                 [] o = "Restart" -> "restart_check"
                                 [] o = "Upgrade" -> "up_getstate"
                                 [] o = "ConfigureAuth" -> "ca_detect"
                                 [] o = "CreateSSHClient" -> "ssh_hostname"]
    /\ attempt' = [attempt EXCEPT ![p] = 0]
    /\ lastObs' = [lastObs EXCEPT ![p] = "none"]
    /\ queryFailed' = [queryFailed EXCEPT ![p] = FALSE]
    /\ events' = [events EXCEPT ![p] = <<>>]
    /\ result' = [result EXCEPT ![p] = "none"]
    /\ arg' = [arg EXCEPT ![p] = <<>>]
    /\ UNCHANGED <<machineState, active>>

\* The caller has the method's result; it may issue another call.
Finish(p) ==
    /\ pc[p] = "done"
    /\ pc' = [pc EXCEPT ![p] = "idle"]
    /\ op' = [op EXCEPT ![p] = "none"]
    /\ inner' = [inner EXCEPT ![p] = "none"]
    /\ attempt' = [attempt EXCEPT ![p] = 0]
    /\ lastObs' = [lastObs EXCEPT ![p] = "none"]
    /\ queryFailed' = [queryFailed EXCEPT ![p] = FALSE]
    /\ events' = [events EXCEPT ![p] = <<>>]
    /\ result' = [result EXCEPT ![p] = "none"]
    /\ arg' = [arg EXCEPT ![p] = <<>>]
    /\ UNCHANGED <<machineState, active>>

\* runActionForState, lines 80-82: the guard.
RunActionGuard(p) ==
    /\ pc[p] = "ra_guard"
    /\ \E obs \in GetState :
         LET d == DesiredState(inner[p])
             err == Guard(obs, d)
         IN Step(p, IF err # Nil THEN Return(op[p], inner[p], err) ELSE Goto("ra_action"),
                 inner[p], obs, <<Ev("guard", d, obs = d)>>, machineState)

\* runActionForState, lines 84-86: the mechanical action.
RunActionDispatch(p) ==
    /\ pc[p] = "ra_action"
    /\ \E out \in DriverCall(inner[p]) :
         Step(p, AfterAction(op[p], inner[p], out.err), inner[p], lastObs[p],
              <<Ev("action", inner[p], out.err = Nil)>>, out.st)

\* One iteration of a poller wait for `desired`, going on at `next` on success.
Poll(p, desired, next, in) ==
    \E obs \in GetState :
      LET r == WaitFor(obs, desired, attempt[p])
          poll == Ev("poll", desired, obs = desired)
      IN Step(p,
              IF r = "retry" THEN Goto(pc[p]) ELSE IF r = Nil THEN next ELSE
                  (IF pc[p] = "ra_wait" THEN Return(op[p], inner[p], r) ELSE Done(r)),
              IF r = Nil THEN in ELSE inner[p],
              obs,
              IF r = "retry" THEN <<poll>> ELSE <<poll, Ev("wait", desired, r = Nil)>>,
              machineState)

\* Faulty variant of RunActionWait: the wait is for Running whatever the
\* desired state.
RunActionWait_ForRunning(p) ==
    /\ pc[p] = "ra_wait"
    /\ Poll(p, "Running", Return(op[p], inner[p], Nil), inner[p])

\* runActionForState, line 88: return mcnutils.WaitFor(MachineInState(desired)).
RunActionWait(p) ==
    /\ pc[p] = "ra_wait"
    /\ Poll(p, DesiredState(inner[p]), Return(op[p], inner[p], Nil), inner[p])

\* Faulty variant of RestartCheck: the stop phase is entered whatever the
\* check observed.
RestartCheck_AlwaysStops(p) ==
    /\ pc[p] = "restart_check"
    /\ \E obs \in GetState :
         Step(p, Goto("ra_guard"), "Stop",
              obs, <<Ev("check", "Running", obs = "Running")>>,
              machineState)

\* Restart, line 104: `if drivers.MachineInState(h.Driver, state.Running)()`;
\* then h.Stop() (line 105), else h.Start() (line 114).
RestartCheck(p) ==
    /\ pc[p] = "restart_check"
    /\ \E obs \in GetState :
         Step(p, Goto("ra_guard"),
              IF MachineInState(obs, "Running") THEN "Stop" ELSE "Start",
              obs, <<Ev("check", "Running", obs = "Running")>>,
              machineState)

\* Restart, lines 109-111: the barrier wait for Stopped; then h.Start() (114).
RestartWaitStopped(p) ==
    /\ pc[p] = "restart_waitStopped"
    /\ Poll(p, "Stopped", Goto("ra_guard"), "Start")

\* Restart, lines 118-122: the final wait for Running.
RestartWaitRunning(p) ==
    /\ pc[p] = "restart_waitRunning"
    /\ Poll(p, "Running", Done(Nil), inner[p])

\* Faulty variant of UpgradePrecondition: a Starting machine is upgraded too.
UpgradePrecondition_AllowsStarting(obs) ==
    IF obs = QueryErr THEN QueryErr
    ELSE IF obs \notin {"Running", "Starting"} THEN errMachineMustBeRunningForUpgrade
    ELSE Nil

\* Faulty variant of UpgradePrecondition: the error of the query is not
\* checked before the state is compared.
UpgradePrecondition_IgnoresQueryErr(obs) ==
    IF obs # "Running" THEN errMachineMustBeRunningForUpgrade ELSE Nil

\* Upgrade, lines 126-133: the precondition on the queried state.
UpgradePrecondition(obs) == IF obs = QueryErr THEN QueryErr
                            ELSE IF obs # "Running" THEN errMachineMustBeRunningForUpgrade
                            ELSE Nil

\* The error a failing provisioner call returns.
ProvisionErr(call) == call \o " failed"

\* provision.DetectProvisioner, provisioner.Package, provisioner.Service:
\* what a call may return.
ProvisionerCall(call) == {Nil, ProvisionErr(call)}

\* Faulty variant of UpgradeAfter: the error of Package is not checked.
UpgradeAfter_IgnoresPackageErr(call, err) ==
    IF call = "service" THEN Done(err)
    ELSE IF call = "detect" THEN (IF err # Nil THEN Done(err) ELSE Goto("up_package"))
    ELSE Goto("up_service")

\* Upgrade, lines 135-146: `if err != nil { return err }` after detection and
\* after Package; the error of Service is the result.
UpgradeAfter(call, err) == IF err # Nil \/ call = "service" THEN Done(err)
                           ELSE IF call = "detect" THEN Goto("up_package")
                           ELSE Goto("up_service")

\* Upgrade, lines 126-133: h.Driver.GetState() and the check of its result.
UpgradeGetState(p) ==
    /\ pc[p] = "up_getstate"
    /\ \E obs \in GetState :
         LET err == UpgradePrecondition(obs)
         IN Step(p, IF err # Nil THEN Done(err) ELSE Goto("up_detect"),
                 inner[p], obs, <<Ev("getstate", "", obs # QueryErr)>>, machineState)

\* Upgrade, lines 135-138: provision.DetectProvisioner(h.Driver).
UpgradeDetect(p) ==
    /\ pc[p] = "up_detect"
    /\ \E err \in ProvisionerCall("detect") :
         Step(p, UpgradeAfter("detect", err), inner[p], lastObs[p],
              <<Ev("detect", "", err = Nil)>>, machineState)

\* Upgrade, lines 141-143: provisioner.Package("docker", pkgaction.Upgrade).
UpgradePackage(p) ==
    /\ pc[p] = "up_package"
    /\ \E err \in ProvisionerCall("package") :
         Step(p, UpgradeAfter("package", err), inner[p], lastObs[p],
              <<Ev("package", "docker", err = Nil)>>, machineState)

\* Upgrade, line 146: return provisioner.Service("docker", serviceaction.Restart).
UpgradeService(p) ==
    /\ pc[p] = "up_service"
    /\ \E err \in ProvisionerCall("service") :
         Step(p, UpgradeAfter("service", err), inner[p], lastObs[p],
              <<Ev("service", "docker", err = Nil)>>, machineState)

\* h.HostOptions, and the empty swarm.Options{} literal of line 172.
HostOptions == [AuthOptions  |-> "h.HostOptions.AuthOptions",
                EngineOptions |-> "h.HostOptions.EngineOptions",
                SwarmOptions  |-> "h.HostOptions.SwarmOptions"]
EmptySwarmOptions == "swarm.Options{}"

\* The arguments of one Provision call, as one value.
ProvisionArgs(swarmOpts, authOpts, engineOpts) ==
    swarmOpts \o ", " \o authOpts \o ", " \o engineOpts

\* Faulty variant of ConfigureAuthArgs: the host's swarm options are passed.
ConfigureAuthArgs_HostSwarm ==
    ProvisionArgs(HostOptions.SwarmOptions, HostOptions.AuthOptions,
                  HostOptions.EngineOptions)

\* ConfigureAuth, line 172: the arguments it gives to provisioner.Provision.
ConfigureAuthArgs ==
    ProvisionArgs(EmptySwarmOptions, HostOptions.AuthOptions, HostOptions.EngineOptions)

\* ConfigureAuth, lines 162-176: `if err != nil { return err }` after detection
\* and after Provision, then `return nil`.
ConfigureAuthAfter(call, err) ==
    IF err # Nil \/ call = "provision" THEN Done(err) ELSE Goto("ca_provision")

\* ConfigureAuth, lines 162-165: provision.DetectProvisioner(h.Driver).
ConfigureAuthDetect(p) ==
    /\ pc[p] = "ca_detect"
    /\ \E err \in ProvisionerCall("detect") :
         Step(p, ConfigureAuthAfter("detect", err), inner[p], lastObs[p],
              <<Ev("detect", "", err = Nil)>>, machineState)

\* ConfigureAuth, lines 172-176: provisioner.Provision(swarm.Options{}, auth, engine).
ConfigureAuthProvision(p) ==
    /\ pc[p] = "ca_provision"
    /\ \E err \in ProvisionerCall("provision") :
         Step(p, ConfigureAuthAfter("provision", err), inner[p], lastObs[p],
              <<Ev("provision", ConfigureAuthArgs, err = Nil)>>, machineState)

\* Driver.GetSSHHostname, Driver.GetSSHPort, ssh.NewClient: what a call may
\* return (the error; the value returned with it is not modelled).
SSHCall(call) == {Nil, call \o " failed"}

\* Faulty variant of CreateSSHClientAfter: the error of GetSSHHostname is
\* overwritten by the port query.
CreateSSHClientAfter_DropsHostnameErr(call, err) ==
    IF call = "hostname" THEN Goto("ssh_port")
    ELSE IF err # Nil \/ call = "newclient" THEN Done(err)
    ELSE Goto("ssh_newclient")

\* CreateSSHClient, lines 62-76: `if err != nil { return ..., err }` after the
\* hostname and after the port query; the error of ssh.NewClient is the result.
CreateSSHClientAfter(call, err) ==
    IF err # Nil \/ call = "newclient" THEN Done(err)
    ELSE IF call = "hostname" THEN Goto("ssh_port")
    ELSE Goto("ssh_newclient")

\* CreateSSHClient, lines 62-65: h.Driver.GetSSHHostname().
CreateSSHClientHostname(p) ==
    /\ pc[p] = "ssh_hostname"
    /\ \E err \in SSHCall("hostname") :
         Step(p, CreateSSHClientAfter("hostname", err), inner[p], lastObs[p],
              <<Ev("hostname", "", err = Nil)>>, machineState)

\* CreateSSHClient, lines 67-70: h.Driver.GetSSHPort().
CreateSSHClientPort(p) ==
    /\ pc[p] = "ssh_port"
    /\ \E err \in SSHCall("port") :
         Step(p, CreateSSHClientAfter("port", err), inner[p], lastObs[p],
              <<Ev("port", "", err = Nil)>>, machineState)

\* CreateSSHClient, lines 72-76: ssh.NewClient(username, addr, port, auth).
CreateSSHClientNew(p) ==
    /\ pc[p] = "ssh_newclient"
    /\ \E err \in SSHCall("newclient") :
         Step(p, CreateSSHClientAfter("newclient", err), inner[p], lastObs[p],
              <<Ev("newclient", "", err = Nil)>>, machineState)

\* The character classes a-z, A-Z and 0-9 of validHostNameChars.
LowerChars == {"a", "b", "c", "d", "e", "f", "g", "h", "i", "j", "k", "l", "m",
               "n", "o", "p", "q", "r", "s", "t", "u", "v", "w", "x", "y", "z"}
UpperChars == {"A", "B", "C", "D", "E", "F", "G", "H", "I", "J", "K", "L", "M",
               "N", "O", "P", "Q", "R", "S", "T", "U", "V", "W", "X", "Y", "Z"}
DigitChars == {"0", "1", "2", "3", "4", "5", "6", "7", "8", "9"}

\* Faulty variant of validHostNameChars: the pattern lacks its closing `$`.
validHostNameChars_NoEndAnchor ==
    [first |-> LowerChars \cup UpperChars \cup DigitChars,
     rest |-> LowerChars \cup UpperChars \cup DigitChars \cup {"-", "."},
     anchorEnd |-> FALSE]

\* validHostNameChars, line 24: `^[a-zA-Z0-9][a-zA-Z0-9\-\.]*$`, as the class of
\* the first character, the class of the repeated ones and the end anchor.
validHostNameChars ==
    [first |-> LowerChars \cup UpperChars \cup DigitChars,
     rest |-> LowerChars \cup UpperChars \cup DigitChars \cup {"-", "."},
     anchorEnd |-> TRUE]

\* The `[...]*$` part of the match of s from position i on: the repetition
\* takes characters of the class; where it stops the text must end when the
\* pattern is anchored.
RECURSIVE MatchRest(_, _, _)
MatchRest(pat, s, i) ==
    IF i > Len(s) THEN TRUE
    ELSE IF s[i] \in pat.rest THEN MatchRest(pat, s, i + 1)
    ELSE ~pat.anchorEnd

\* validHostNamePattern.MatchString(s), line 25: the pattern is anchored at
\* the start, so the first character of s must be in the first class.
MatchString(pat, s) ==
    /\ Len(s) >= 1
    /\ s[1] \in pat.first
    /\ MatchRest(pat, s, 2)

\* ValidateHostName, lines 53-55.
ValidateHostName(name) == MatchString(validHostNameChars, name)

\* The characters and the names ValidateHostName is called with.
NameChars == {"a", "Z", "0", "9", "-", ".", "_", " "}
RECURSIVE NamesOfLen(_)
NamesOfLen(n) ==
    IF n = 0 THEN {<<>>}
    ELSE {Append(s, c) : s \in NamesOfLen(n - 1), c \in NameChars}
Names == UNION {NamesOfLen(n) : n \in 0 .. MaxNameLen}

\* A caller calls ValidateHostName(name) and has its result.
CallValidateHostName(p) ==
    /\ pc[p] = "idle"
    /\ \E name \in Names :
         /\ arg' = [arg EXCEPT ![p] = name]
         /\ result' = [result EXCEPT ![p] =
                IF ValidateHostName(name) THEN "true" ELSE "false"]
    /\ op' = [op EXCEPT ![p] = "ValidateHostName"]
    /\ pc' = [pc EXCEPT ![p] = "done"]
    /\ UNCHANGED <<machineState, active, inner, attempt, lastObs, queryFailed, events>>

\* The machine changes state on its own: a driver action taking effect after
\* it returned, or something else acting on the machine.
BackendDrift ==
    /\ \E s \in States \ {machineState} : machineState' = s
    /\ UNCHANGED <<active, op, inner, pc, attempt, lastObs, arg, queryFailed, events, result>>

TypeOK ==
    /\ machineState \in States
    /\ active \subseteq Procs
    /\ \A p \in Procs : op[p] \in Ops \cup {"none", "ValidateHostName"}
    /\ \A p \in Procs : arg[p] \in Names
    /\ \A p \in Procs : queryFailed[p] \in BOOLEAN
    /\ \A p \in Procs : attempt[p] \in 0 .. (MaxAttempts - 1)
    /\ \A p \in Procs : lastObs[p] \in Observations \cup {"none"}

Init ==
    /\ machineState \in States
    /\ active = {1}
    /\ op = [p \in Procs |-> "none"]
    /\ inner = [p \in Procs |-> "none"]
    /\ pc = [p \in Procs |-> "idle"]
    /\ attempt = [p \in Procs |-> 0]
    /\ lastObs = [p \in Procs |-> "none"]
    /\ arg = [p \in Procs |-> <<>>]
    /\ queryFailed = [p \in Procs |-> FALSE]
    /\ events = [p \in Procs |-> <<>>]
    /\ result = [p \in Procs |-> "none"]

Next ==
    \/ \E p \in active : \E o \in Ops : Invoke(p, o)
    \/ \E p \in active : Finish(p)
    \/ \E p \in active : RunActionGuard(p)
    \/ \E p \in active : RunActionDispatch(p)
    \/ \E p \in active : RunActionWait(p)
    \/ \E p \in active : RestartCheck(p)
    \/ \E p \in active : RestartWaitStopped(p)
    \/ \E p \in active : RestartWaitRunning(p)
    \/ \E p \in active : UpgradeGetState(p)
    \/ \E p \in active : UpgradeDetect(p)
    \/ \E p \in active : UpgradePackage(p)
    \/ \E p \in active : UpgradeService(p)
    \/ \E p \in active : ConfigureAuthDetect(p)
    \/ \E p \in active : ConfigureAuthProvision(p)
    \/ \E p \in active : CreateSSHClientHostname(p)
    \/ \E p \in active : CreateSSHClientPort(p)
    \/ \E p \in active : CreateSSHClientNew(p)
    \/ \E p \in active : CallValidateHostName(p)
    \/ BackendDrift

Spec == Init /\ [][Next]_vars

\* One statement of the call caller p is in.
CallStep(p) ==
    \/ RunActionGuard(p) \/ RunActionDispatch(p) \/ RunActionWait(p)
    \/ RestartCheck(p) \/ RestartWaitStopped(p) \/ RestartWaitRunning(p)
    \/ UpgradeGetState(p) \/ UpgradeDetect(p) \/ UpgradePackage(p) \/ UpgradeService(p)
    \/ ConfigureAuthDetect(p) \/ ConfigureAuthProvision(p)
    \/ CreateSSHClientHostname(p) \/ CreateSSHClientPort(p) \/ CreateSSHClientNew(p)

\* The methods are synchronous code on the caller's thread: as long as every
\* driver, provisioner and poller call returns, a call that has a next
\* statement executes it.
FairSpec == Spec /\ \A p \in Procs : WF_vars(CallStep(p))

\* Two callers on the same Host, each calling Start or Stop, with no lock
\* between them: the Host has none (lines 79-101).
InitConc ==
    /\ machineState \in {"Stopped", "Running"}
    /\ active = Procs
    /\ op = [p \in Procs |-> "none"]
    /\ inner = [p \in Procs |-> "none"]
    /\ pc = [p \in Procs |-> "idle"]
    /\ attempt = [p \in Procs |-> 0]
    /\ lastObs = [p \in Procs |-> "none"]
    /\ arg = [p \in Procs |-> <<>>]
    /\ queryFailed = [p \in Procs |-> FALSE]
    /\ events = [p \in Procs |-> <<>>]
    /\ result = [p \in Procs |-> "none"]

NextConc ==
    \/ BackendDrift
    \/ \E p \in active : \E o \in {"Start", "Stop"} : Invoke(p, o)
    \/ \E p \in active : RunActionGuard(p)
    \/ \E p \in active : RunActionDispatch(p)
    \/ \E p \in active : RunActionWait(p)

ConcSpec == InitConc /\ [][NextConc]_vars

\* ---------------------------------------------------------------- claims
\* Helpers to read events[p].
SSK == {"Start", "Stop", "Kill"}
TargetOf(o) == IF o = "Start" THEN "Running" ELSE "Stopped"
IsPoll(ev) == ev.e = "poll"
Has(p, ev) == \E i \in DOMAIN events[p] : events[p][i] = ev
HasKind(p, k, t) == \E i \in DOMAIN events[p] : events[p][i].e = k /\ events[p][i].t = t
NoPolls(p) == SelectSeq(events[p], LAMBDA ev : ~IsPoll(ev))
NumKind(p, k) == Cardinality({i \in DOMAIN events[p] : events[p][i].e = k})

\* C1: when the guard of Start, Stop or Kill observes the machine already in
\* the target state, the call returns the "already <state>" error at once, having
\* dispatched no driver action and made no poll, and the guard step leaves the
\* machine's state as it was.
C1_GuardHit(p) ==
    /\ op[p] \in SSK
    /\ Len(events[p]) >= 1
    /\ events[p][1] = Ev("guard", TargetOf(op[p]), TRUE)
C1_Inv ==
    \A p \in Procs : C1_GuardHit(p) =>
        /\ pc[p] = "done"
        /\ result[p] = (IF op[p] = "Start" THEN "already running" ELSE "already stopped")
        /\ events[p] = <<Ev("guard", TargetOf(op[p]), TRUE)>>
C1_Step ==
    \A p \in Procs :
        (pc[p] = "ra_guard" /\ op[p] \in SSK /\ pc'[p] # "ra_guard"
            /\ lastObs'[p] = TargetOf(op[p]))
        => (machineState' = machineState /\ pc'[p] = "done")
C1_AlreadyInState == []C1_Inv /\ [][C1_Step]_vars
C1_Witness == \E p \in Procs : C1_GuardHit(p) /\ op[p] = "Kill" /\ pc[p] = "done"

\* C2: in a Start, Stop or Kill call the guard query comes first, the driver
\* action is dispatched at most once and right after the guard, and polls are
\* made only after the action returned without error.
C2_Order ==
    \A p \in Procs : op[p] \in SSK =>
        /\ \A i \in DOMAIN events[p] :
             /\ (events[p][i].e = "guard") <=> (i = 1)
             /\ (events[p][i].e = "action") <=> (i = 2)
             /\ (i = 2) => events[p][i].t = op[p]
             /\ (i >= 3) => /\ events[p][i].e \in {"poll", "wait"}
                            /\ events[p][2] = Ev("action", op[p], TRUE)
        /\ NumKind(p, "action") <= 1
C2_Witness ==
    \E p \in Procs :
        /\ op[p] = "Stop" /\ pc[p] = "done" /\ result[p] = WaitTimeout
        /\ NumKind(p, "action") = 1
        /\ NumKind(p, "poll") = MaxAttempts

\* C3 as stated: when the Stop call inside Restart returns the "already
\* stopped" error, Restart does not return that error and goes on to its start
\* phase.
C3_StopAlreadyStopped(p) ==
    /\ op[p] = "Restart"
    /\ Len(events[p]) >= 2
    /\ events[p][1] = Ev("check", "Running", TRUE)
    /\ events[p][2] = Ev("guard", "Stopped", TRUE)
C4_StopPhaseFailed(p) ==
    /\ op[p] = "Restart"
    /\ \/ Has(p, Ev("action", "Stop", FALSE))
       \/ Has(p, Ev("wait", "Stopped", FALSE))
C4_StopErrorPropagates ==
    \A p \in Procs : C4_StopPhaseFailed(p) =>
        /\ pc[p] = "done"
        /\ result[p] = (IF Has(p, Ev("action", "Stop", FALSE)) THEN "Stop failed"
                        ELSE WaitTimeout)
        /\ ~HasKind(p, "action", "Start")
        /\ ~HasKind(p, "guard", "Running")
        /\ events[p][Len(events[p])] \in {Ev("action", "Stop", FALSE),
                                          Ev("wait", "Stopped", FALSE)}
C4_Witness ==
    \E p \in Procs :
        /\ C4_StopPhaseFailed(p)
        /\ Has(p, Ev("action", "Stop", TRUE))
        /\ NumKind(p, "wait") = 2

\* C5: a Restart that observed Running at its first check and returned success
\* made, in this order, one Driver.Stop, two completed waits for Stopped, one
\* Driver.Start and two completed waits for Running, each wait ending with a
\* poll that observed its target; the last of them observed Running.
C5_RestartSucceeded(p) ==
    /\ op[p] = "Restart"
    /\ pc[p] = "done"
    /\ result[p] = Nil
    /\ events[p][1] = Ev("check", "Running", TRUE)
C5_RestartSequence ==
    \A p \in Procs : C5_RestartSucceeded(p) =>
        /\ NoPolls(p) = << Ev("check", "Running", TRUE),
                           Ev("guard", "Stopped", FALSE),
                           Ev("action", "Stop", TRUE),
                           Ev("wait", "Stopped", TRUE),
                           Ev("wait", "Stopped", TRUE),
                           Ev("guard", "Running", FALSE),
                           Ev("action", "Start", TRUE),
                           Ev("wait", "Running", TRUE),
                           Ev("wait", "Running", TRUE) >>
        /\ \A i \in DOMAIN events[p] :
             events[p][i].e = "wait" =>
                 events[p][i - 1] = Ev("poll", events[p][i].t, TRUE)
        /\ lastObs[p] = "Running"
C5_Witness ==
    \E p \in Procs :
        /\ C5_RestartSucceeded(p)
        /\ NumKind(p, "poll") > 4

\* C6: every poller wait returns success right at its first poll that observes
\* the target, fails with the timeout error only after MaxAttempts polls in a
\* row none of which observed the target, and a poll whose state query failed
\* counts as one more such poll: it never ends the wait before the budget.
C6_WaitStart(p, i) == i = 0 \/ (i \in DOMAIN events[p] /\ ~IsPoll(events[p][i]))
C6_Poller ==
    \A p \in Procs : \A i \in DOMAIN events[p] :
        LET ev == events[p][i] IN
        /\ (IsPoll(ev) /\ ev.ok) =>
              /\ i < Len(events[p])
              /\ events[p][i + 1] = Ev("wait", ev.t, TRUE)
        /\ (ev.e = "wait" /\ ev.ok) =>
              /\ i > 1
              /\ events[p][i - 1] = Ev("poll", ev.t, TRUE)
        /\ (ev.e = "wait" /\ ~ev.ok) =>
              /\ i > MaxAttempts
              /\ \A j \in (i - MaxAttempts) .. (i - 1) :
                    IsPoll(events[p][j]) /\ ~events[p][j].ok /\ events[p][j].t = ev.t
              /\ C6_WaitStart(p, i - MaxAttempts - 1)
              /\ pc[p] = "done" /\ result[p] = WaitTimeout
        /\ (IsPoll(ev) /\ ~ev.ok /\ i = Len(events[p])) =>
              /\ pc[p] \in {"ra_wait", "restart_waitStopped", "restart_waitRunning"}
              /\ \E k \in 1 .. (MaxAttempts - 1) :
                    /\ attempt[p] = k
                    /\ C6_WaitStart(p, i - k)
                    /\ \A j \in (i - k + 1) .. i : IsPoll(events[p][j])
C6_Witness ==
    \E p \in Procs :
        /\ pc[p] = "done" /\ result[p] = Nil
        /\ queryFailed[p]
        /\ Len(events[p]) > 2
        /\ events[p][Len(events[p])] = Ev("wait", "Running", TRUE)
        /\ events[p][Len(events[p]) - 2] = Ev("poll", "Running", FALSE)

\* C7: Upgrade whose state query answered a state other than Running returns
\* errMachineMustBeRunningForUpgrade having called neither DetectProvisioner nor
\* Package nor Service.
C7_NotRunning(p) ==
    /\ op[p] = "Upgrade"
    /\ Len(events[p]) >= 1
    /\ events[p][1] = Ev("getstate", "", TRUE)
    /\ lastObs[p] \in States \ {"Running"}
C7_UpgradeNotRunning ==
    \A p \in Procs : C7_NotRunning(p) =>
        /\ pc[p] = "done"
        /\ result[p] = "Error: machine must be running to upgrade."
        /\ Len(events[p]) = 1
C7_Witness == \E p \in Procs : C7_NotRunning(p) /\ lastObs[p] = "Starting"

\* C8: Upgrade on a machine queried Running calls DetectProvisioner, Package and
\* Service in this order, each at most once, stops at the first of them that
\* fails and returns that call's error; it returns nil only after all three
\* succeeded.
C8_Kinds == <<"getstate", "detect", "package", "service">>
C8_Running(p) ==
    /\ op[p] = "Upgrade"
    /\ Len(events[p]) >= 1
    /\ events[p][1] = Ev("getstate", "", TRUE)
    /\ lastObs[p] = "Running"
C8_UpgradeOrder ==
    \A p \in Procs : C8_Running(p) =>
        /\ Len(events[p]) <= 4
        /\ \A i \in DOMAIN events[p] :
             /\ events[p][i].e = C8_Kinds[i]
             /\ ~events[p][i].ok =>
                   /\ i = Len(events[p])
                   /\ pc[p] = "done"
                   /\ result[p] = C8_Kinds[i] \o " failed"
        /\ (pc[p] = "done" /\ result[p] = Nil) =>
             /\ Len(events[p]) = 4
             /\ \A i \in 1 .. 4 : events[p][i].ok
        /\ (pc[p] = "done") =>
             (Len(events[p]) = 4 \/ ~events[p][Len(events[p])].ok)
C8_Witness ==
    \E p \in Procs :
        /\ C8_Running(p)
        /\ events[p] = << Ev("getstate", "", TRUE), Ev("detect", "", TRUE),
                          Ev("package", "docker", FALSE) >>

\* C9: in Start, Stop and Kill, a guard that did not observe the target state
\* lets the call go on to the driver action, which is the next call made; when
\* that action returns an error the call returns it and makes no poll.
C9_GuardMiss(p) ==
    /\ op[p] \in SSK
    /\ Len(events[p]) >= 1
    /\ events[p][1] = Ev("guard", TargetOf(op[p]), FALSE)
C9_ActionError ==
    \A p \in Procs : C9_GuardMiss(p) =>
        /\ Len(events[p]) = 1 => (pc[p] = "ra_action" /\ result[p] = "none")
        /\ Len(events[p]) >= 2 => (events[p][2].e = "action" /\ events[p][2].t = op[p])
        /\ (Len(events[p]) >= 2 /\ ~events[p][2].ok) =>
             /\ pc[p] = "done"
             /\ result[p] = op[p] \o " failed"
             /\ Len(events[p]) = 2
C9_Witness ==
    \E p \in Procs :
        /\ C9_GuardMiss(p)
        /\ op[p] = "Stop"
        /\ lastObs[p] = "Error"
        /\ events[p] = <<Ev("guard", "Stopped", FALSE), Ev("action", "Stop", FALSE)>>
        /\ result[p] = "Stop failed"

\* C10: a Start, Stop or Kill that returned success made its guard query, its
\* driver action, then k >= 1 polls for its target state of which only the last
\* observed the target, and nothing after that poll.
C10_Succeeded(p) == op[p] \in SSK /\ pc[p] = "done" /\ result[p] = Nil
C10_FirstHitReturns ==
    \A p \in Procs : C10_Succeeded(p) =>
        LET n == Len(events[p]) IN
        /\ n >= 4
        /\ events[p][1] = Ev("guard", TargetOf(op[p]), FALSE)
        /\ events[p][2] = Ev("action", op[p], TRUE)
        /\ \A i \in 3 .. (n - 2) :
              IsPoll(events[p][i]) /\ ~events[p][i].ok /\ events[p][i].t = TargetOf(op[p])
        /\ events[p][n - 1] = Ev("poll", TargetOf(op[p]), TRUE)
        /\ events[p][n] = Ev("wait", TargetOf(op[p]), TRUE)
        /\ lastObs[p] = TargetOf(op[p])
C10_Witness ==
    \E p \in Procs :
        /\ C10_Succeeded(p)
        /\ events[p] = << Ev("guard", "Running", FALSE), Ev("action", "Start", TRUE),
                          Ev("poll", "Running", FALSE), Ev("poll", "Running", FALSE),
                          Ev("poll", "Running", TRUE), Ev("wait", "Running", TRUE) >>

\* C11 as stated: a state query that fails in the guard of Start, Stop or Kill,
\* or in the first check of Restart, ends the call with the query's error; the
\* call does not go on to the driver action.
C11_QueryFailed(p) ==
    /\ op[p] \in SSK \cup {"Restart"}
    /\ Len(events[p]) = 1
    /\ events[p][1].e \in {"guard", "check"}
    /\ lastObs[p] = QueryErr
C11_QueryErrorSurfaced ==
    \A p \in Procs : C11_QueryFailed(p) => (pc[p] = "done" /\ result[p] = QueryErr)

\* C12: every call returns: a call in progress is eventually done, having made
\* at most one poller wait (Start, Stop, Kill) or four (Restart), each of at
\* most MaxAttempts polls, and a bounded number of calls in all.
C12_MaxWaits(o) == IF o = "Restart" THEN 4 ELSE IF o \in SSK THEN 1 ELSE 0
C12_MaxEvents(o) ==
    IF o = "Restart" THEN 1 + 2 * (3 + MaxAttempts) + 2 * (1 + MaxAttempts)
    ELSE IF o \in SSK THEN 3 + MaxAttempts
    ELSE 4
C12_Bounded(p) ==
    /\ NumKind(p, "wait") <= C12_MaxWaits(op[p])
    /\ NumKind(p, "poll") <= MaxAttempts * C12_MaxWaits(op[p])
    /\ Len(events[p]) <= C12_MaxEvents(op[p])
C12_Terminates ==
    /\ \A p \in Procs : []C12_Bounded(p)
    /\ \A p \in Procs : (pc[p] \notin {"idle", "done"}) ~> (pc[p] = "done")
C12_Witness ==
    \E p \in Procs :
        /\ op[p] = "Restart" /\ pc[p] = "done" /\ result[p] = WaitTimeout
        /\ NumKind(p, "wait") = 4
        /\ NumKind(p, "poll") > MaxAttempts

\* C13: every guard, poll and wait is for Running or Stopped; Start dispatches
\* only Driver.Start and waits for Running, Stop only Driver.Stop and Kill only
\* Driver.Kill, both waiting for Stopped; Restart dispatches only Driver.Stop
\* and Driver.Start; Upgrade and ConfigureAuth dispatch no driver action.
C13_Targets ==
    \A p \in Procs : \A i \in DOMAIN events[p] :
        LET ev == events[p][i] IN
        /\ ev.e \in {"guard", "check", "poll", "wait"} => ev.t \in {"Running", "Stopped"}
        /\ op[p] = "Start" =>
             /\ ev.e = "action" => ev.t = "Start"
             /\ ev.e \in {"guard", "poll", "wait"} => ev.t = "Running"
        /\ op[p] = "Stop" =>
             /\ ev.e = "action" => ev.t = "Stop"
             /\ ev.e \in {"guard", "poll", "wait"} => ev.t = "Stopped"
        /\ op[p] = "Kill" =>
             /\ ev.e = "action" => ev.t = "Kill"
             /\ ev.e \in {"guard", "poll", "wait"} => ev.t = "Stopped"
        /\ op[p] = "Restart" => (ev.e = "action" => ev.t \in {"Start", "Stop"})
        /\ op[p] \in {"Upgrade", "ConfigureAuth"} =>
             ev.e \notin {"action", "guard", "check", "poll", "wait"}
C13_Witness ==
    \E p \in Procs :
        /\ op[p] = "Kill" /\ pc[p] = "done" /\ result[p] = Nil
        /\ Has(p, Ev("action", "Kill", TRUE))
        /\ Has(p, Ev("wait", "Stopped", TRUE))

\* C14: ConfigureAuth calls DetectProvisioner, then Provision once with empty
\* swarm options and the host's auth and engine options; a failed detection is
\* returned without Provision, a failed Provision is returned as it is, and no
\* state query, driver action or poll is made.
C14_ProvisionCall(ok) ==
    Ev("provision",
       "swarm.Options{}, h.HostOptions.AuthOptions, h.HostOptions.EngineOptions", ok)
C14_ConfigureAuth ==
    \A p \in Procs : op[p] = "ConfigureAuth" =>
        /\ lastObs[p] = "none"
        /\ \/ events[p] = <<>> /\ pc[p] = "ca_detect"
           \/ events[p] = <<Ev("detect", "", FALSE)>>
                /\ pc[p] = "done" /\ result[p] = "detect failed"
           \/ events[p] = <<Ev("detect", "", TRUE)>> /\ pc[p] = "ca_provision"
           \/ events[p] = <<Ev("detect", "", TRUE), C14_ProvisionCall(FALSE)>>
                /\ pc[p] = "done" /\ result[p] = "provision failed"
           \/ events[p] = <<Ev("detect", "", TRUE), C14_ProvisionCall(TRUE)>>
                /\ pc[p] = "done" /\ result[p] = Nil
C14_Witness ==
    \E p \in Procs :
        /\ op[p] = "ConfigureAuth" /\ pc[p] = "done"
        /\ result[p] = "provision failed"
        /\ Len(events[p]) = 2

\* C15: CreateSSHClient queries the SSH hostname, then the SSH port, then calls
\* NewClient; the first of them that fails is the last call made and its error
\* is the result, so NewClient is called only after both queries succeeded.
C15_Kinds == <<"hostname", "port", "newclient">>
C15_CreateSSHClient ==
    \A p \in Procs : op[p] = "CreateSSHClient" =>
        /\ Len(events[p]) <= 3
        /\ \A i \in DOMAIN events[p] :
             /\ events[p][i].e = C15_Kinds[i]
             /\ ~events[p][i].ok =>
                   /\ i = Len(events[p])
                   /\ pc[p] = "done"
                   /\ result[p] = C15_Kinds[i] \o " failed"
        /\ (pc[p] = "done") <=>
             (Len(events[p]) = 3 \/ (events[p] # <<>> /\ ~events[p][Len(events[p])].ok))
        /\ (pc[p] = "done" /\ result[p] = Nil) => Len(events[p]) = 3
C15_Witness ==
    \E p \in Procs :
        /\ op[p] = "CreateSSHClient" /\ pc[p] = "done"
        /\ events[p] = <<Ev("hostname", "", TRUE), Ev("port", "", FALSE)>>
        /\ result[p] = "port failed"

\* C16: ValidateHostName(name) is true exactly when name is not empty, its
\* first character is a letter or a digit and each following character is a
\* letter, a digit, a hyphen or a dot.
C16_Alnum == {"a", "Z", "0", "9"}
C16_Reference(name) ==
    /\ name # <<>>
    /\ name[1] \in C16_Alnum
    /\ \A i \in 2 .. Len(name) : name[i] \in C16_Alnum \cup {"-", "."}
C16_ValidateHostName ==
    \A p \in Procs : (op[p] = "ValidateHostName" /\ pc[p] = "done") =>
        /\ result[p] \in {"true", "false"}
        /\ (result[p] = "true") <=> C16_Reference(arg[p])
        /\ (arg[p] = <<>>) => result[p] = "false"
        /\ (arg[p] # <<>> /\ arg[p][1] \in {"-", "."}) => result[p] = "false"
        /\ (\E i \in DOMAIN arg[p] : arg[p][i] \in {"_", " "}) => result[p] = "false"
C16_Witness ==
    \E p \in Procs :
        /\ op[p] = "ValidateHostName" /\ pc[p] = "done"
        /\ arg[p] = <<"a", "-", ".">>
        /\ result[p] = "true"

\* C17 as stated: of two Start calls (or two Stop calls) running at once on
\* the same Host, at most one dispatches the driver action.
C17_Dispatched(p) == \E i \in DOMAIN events[p] : events[p][i].e = "action"
C17_SameCalls == op[1] = op[2] /\ op[1] \in {"Start", "Stop"}
C17_AtMostOneDispatch ==
    C17_SameCalls => ~(C17_Dispatched(1) /\ C17_Dispatched(2))

\* C17 as amended: of two Start calls (or two Stop calls) running at once on
\* the same Host, each dispatches the driver action at most once, and only
\* after its own guard query did not observe the target state.
C17_Amended ==
    C17_SameCalls =>
        \A p \in Procs :
            /\ NumKind(p, "action") <= 1
            /\ C17_Dispatched(p) =>
                  /\ events[p][1] = Ev("guard", TargetOf(op[p]), FALSE)
                  /\ events[p][2].e = "action"
C17_Witness ==
    /\ C17_SameCalls /\ op[1] = "Start"
    /\ C17_Dispatched(1) /\ C17_Dispatched(2)

\* C18: when the Start call inside Restart returns an error, the "already
\* running" error of its guard included, Restart returns that error: after a
\* rejecting guard no Driver.Start is dispatched, and in no case is the final
\* wait for Running made.
C18_StartFailed(p) ==
    /\ op[p] = "Restart"
    /\ \/ Has(p, Ev("guard", "Running", TRUE))
       \/ Has(p, Ev("action", "Start", FALSE))
C18_StartErrorPropagates ==
    \A p \in Procs : C18_StartFailed(p) =>
        LET last == events[p][Len(events[p])] IN
        /\ pc[p] = "done"
        /\ last \in {Ev("guard", "Running", TRUE), Ev("action", "Start", FALSE)}
        /\ result[p] = (IF last.e = "guard" THEN "already running" ELSE "Start failed")
        /\ last.e = "guard" => ~HasKind(p, "action", "Start")
        /\ ~HasKind(p, "poll", "Running")
        /\ ~HasKind(p, "wait", "Running")
C18_Witness ==
    \E p \in Procs :
        /\ op[p] = "Restart" /\ pc[p] = "done" /\ result[p] = "already running"
        /\ events[p] = <<Ev("check", "Running", FALSE), Ev("guard", "Running", TRUE)>>

\* C19: when the first check of Restart does not observe Running, the stop
\* phase is skipped: the next call is the guard of Start, and neither
\* Driver.Stop nor any poll or wait for Stopped is made in that Restart.
C19_CheckMissed(p) ==
    /\ op[p] = "Restart"
    /\ Len(events[p]) >= 1
    /\ events[p][1] = Ev("check", "Running", FALSE)
C19_StopPhaseSkipped ==
    \A p \in Procs : C19_CheckMissed(p) =>
        /\ Len(events[p]) >= 2 => events[p][2].e = "guard" /\ events[p][2].t = "Running"
        /\ Len(events[p]) = 1 => (pc[p] = "ra_guard" /\ inner[p] = "Start")
        /\ ~HasKind(p, "action", "Stop")
        /\ ~HasKind(p, "guard", "Stopped")
        /\ ~HasKind(p, "poll", "Stopped")
        /\ ~HasKind(p, "wait", "Stopped")
C19_Witness ==
    \E p \in Procs :
        /\ C19_CheckMissed(p)
        /\ events[p] = << Ev("check", "Running", FALSE), Ev("guard", "Running", FALSE),
                          Ev("action", "Start", TRUE) >>
        /\ lastObs[p] = "Paused"

\* C20: when the state query of Upgrade fails, Upgrade returns the query's
\* error, not errMachineMustBeRunningForUpgrade, having made that one query and
\* called neither DetectProvisioner nor Package nor Service.
C20_QueryFailed(p) ==
    /\ op[p] = "Upgrade"
    /\ Len(events[p]) >= 1
    /\ events[p][1] = Ev("getstate", "", FALSE)
C20_UpgradeQueryError ==
    \A p \in Procs : C20_QueryFailed(p) =>
        /\ pc[p] = "done"
        /\ result[p] = "QueryErr"
        /\ result[p] # "Error: machine must be running to upgrade."
        /\ Len(events[p]) = 1
        /\ lastObs[p] = QueryErr
C20_Witness == \E p \in Procs : C20_QueryFailed(p) /\ pc[p] = "done"

====
